---- MODULE Spec2Model ----
(***************************************************************************)
(* Model of the "why" annotation extension: the store file                 *)
(* (.whyannotations.json), the session's in-memory collection held by      *)
(* activate(), and the add / edit / delete command handlers, each of which *)
(* is an async flow that suspends at its prompts.                          *)
(***************************************************************************)
EXTENDS Integers, Sequences, FiniteSets, TLC

(* ---------------------------- bounds ----------------------------------- *)
\* number of ids uuidv4() hands out in one run (caps the add commands)
MaxIds == 2

\* number of commands the user invokes in one run
MaxCommands == 3

\* the slots for command flows in progress: two commands can be suspended
\* at once, and a new invocation takes the lowest free slot
Flows == {1, 2}

(* ---------------------------- values ----------------------------------- *)
\* strings are sequences of one-character strings
Space == " "
Comma == ","

\* a value a prompt resolves to: `undefined` or a string
Undefined == [given |-> FALSE, value |-> <<>>]
Str(s) == [given |-> TRUE, value |-> s]

TextAnswers == {Undefined, Str(<<>>), Str(<<"x">>), Str(<<"y">>)}
TagAnswers == {Undefined, Str(<<>>), Str(<<Space, "a", Comma, Space, "b">>)}
ConfirmAnswers == {Undefined, Str(<<"Yes">>), Str(<<"No">>)}

\* what one exec() of git config calls back with
ExecOk(out) == [error |-> FALSE, stdout |-> out, stderr |-> <<>>]
ExecError == [error |-> TRUE, stdout |-> <<>>, stderr |-> <<>>]

\* the git configurations of the machine: what user.name and user.email answer
GitConfigs ==
    { [name |-> ExecError, email |-> ExecError],
      [name |-> ExecOk(<<"N", "\n">>), email |-> ExecOk(<<>>)],
      [name |-> ExecOk(<<"N", "\n">>), email |-> ExecOk(<<"e", "\n">>)] }

\* the editors the user can be in: a file and the selection made in it
Selection(sl, sc, el, ec) ==
    [startLine |-> sl, startCharacter |-> sc, endLine |-> el, endCharacter |-> ec]
NoEditor == [open |-> FALSE, fsPath |-> "", selection |-> Selection(0, 0, 0, 0)]
Editors ==
    { [open |-> TRUE, fsPath |-> "/a.ts", selection |-> Selection(0, 0, 0, 4)],
      [open |-> TRUE, fsPath |-> "/b.ts", selection |-> Selection(3, 1, 4, 0)] }

Ids == 0 .. MaxIds
Times == {7}

(* ------------------------- string helpers ------------------------------ *)
IsSpace(c) == c \in {Space, "\n"}

RECURSIVE TrimLeft(_)
TrimLeft(s) == IF s # <<>> /\ IsSpace(Head(s)) THEN TrimLeft(Tail(s)) ELSE s

RECURSIVE TrimRight(_)
TrimRight(s) ==
    IF s # <<>> /\ IsSpace(s[Len(s)]) THEN TrimRight(SubSeq(s, 1, Len(s) - 1)) ELSE s

\* String.prototype.trim
trim(s) == TrimRight(TrimLeft(s))

\* String.prototype.split(","): the pieces between the commas
RECURSIVE SplitFrom(_, _, _)
SplitFrom(s, cur, acc) ==
    IF s = <<>> THEN Append(acc, cur)
    ELSE IF Head(s) = Comma THEN SplitFrom(Tail(s), <<>>, Append(acc, cur))
    ELSE SplitFrom(Tail(s), Append(cur, Head(s)), acc)

split(s) == SplitFrom(s, <<>>, <<>>)

\* .map((t) => t.trim())
TrimEach(pieces) == [k \in 1 .. Len(pieces) |-> trim(pieces[k])]

\* JavaScript truthiness of an optional string
Truthy(a) == a.given /\ a.value # <<>>

(* ---------------------------- helpers ---------------------------------- *)
\* tagsInput ? tagsInput.split(",").map((t) => t.trim()) : []
ParseTags(tagsInput) ==
    IF Truthy(tagsInput) THEN TrimEach(split(tagsInput.value)) ELSE <<>>

TextRejected_undefinedOnly(text) == ~text.given

\* showPopupAnnotationInput: if (!text) return undefined
TextRejected(text) == ~Truthy(text)

\* getGitAuthor: nameError || nameStderr || !nameStdout.trim()
ExecFailed(r) == r.error \/ r.stderr # <<>> \/ trim(r.stdout) = <<>>

AuthorOf(nameRes, emailRes) ==
    IF ExecFailed(nameRes) THEN <<"Unknown">>
    ELSE IF ExecFailed(emailRes) THEN trim(nameRes.stdout)
    ELSE trim(nameRes.stdout) \o <<Space, "<">> \o trim(emailRes.stdout) \o <<">">>

\* the store file: absent, or present with a content that parses or not
NoFile == [exists |-> FALSE, parses |-> FALSE, annotations |-> <<>>]
CorruptFile == [exists |-> TRUE, parses |-> FALSE, annotations |-> <<>>]
FileOf(annotations) == [exists |-> TRUE, parses |-> TRUE, annotations |-> annotations]

initAnnotationsFile_resetsCorrupt(f) == IF ~f.exists \/ ~f.parses THEN FileOf(<<>>) ELSE f

initAnnotationsFile_alwaysWrites(f) == FileOf(<<>>)

\* initAnnotationsFile: write { annotations: [] } when the file does not exist
initAnnotationsFile(f) == IF ~f.exists THEN FileOf(<<>>) ELSE f

\* saveAnnotations: overwrite the file with the serialized collection
saveAnnotations(annotations) == FileOf(annotations)

\* findAnnotationById: linear scan, the first record whose id is equal
findAnnotationById(annotations, id) ==
    LET hits == {k \in 1 .. Len(annotations) : annotations[k].id = id}
    IN IF hits = {} THEN [found |-> FALSE, index |-> 0]
       ELSE [found |-> TRUE, index |-> CHOOSE k \in hits : \A j \in hits : k <= j]

updateAnnotation_upsert(annotations, id, text, tags) ==
    IF id \in {annotations[k].id : k \in 1 .. Len(annotations)}
    THEN [k \in 1 .. Len(annotations) |->
            IF annotations[k].id = id
            THEN [annotations[k] EXCEPT !.text = text, !.tags = tags]
            ELSE annotations[k]]
    ELSE Append(annotations,
                [ id |-> id, filePath |-> "", range |-> Selection(0, 0, 0, 0), text |-> text,
                  tags |-> tags, author |-> <<"Unknown">>, createdAt |-> 0 ])

updateAnnotation(annotations, id, text, tags) ==
    [k \in 1 .. Len(annotations) |->
        IF annotations[k].id = id
        THEN [annotations[k] EXCEPT !.text = text, !.tags = tags]
        ELSE annotations[k]]

removeAnnotation(annotations, id) ==
    LET Keep(a) == a.id # id IN SelectSeq(annotations, Keep)

push_overwrite(arr, a) == <<a>>

\* Array.prototype.push
push(arr, a) == Append(arr, a)

(* ----------------------------- state ----------------------------------- *)
VARIABLES
    session,           \* "start", "active", or "inactive" (activate returned early or threw)
    file,              \* the store file .whyannotations.json
    annotationsFile,   \* annotationsFile.annotations of activate(): the session's collection
    activeTextEditor,  \* vscode.window.activeTextEditor
    nextId,            \* the ids uuidv4 has handed out so far are 1 .. nextId - 1
    flows,             \* the command invocations in progress, one per slot
    event,             \* the last handler step: command, id, answer received, message shown
    deleted,           \* ids whose confirmed delete command has completed
    commands,          \* number of commands invoked so far
    gitConfig,         \* the machine's git configuration
    call,              \* the repository operation applied last, with its arguments
    returned,          \* the collection that operation returned
    treeAnnotations    \* AnnotationsTreeProvider.annotations: the array the sidebar shows

vars == <<session, file, annotationsFile, activeTextEditor, nextId, flows, event, deleted,
          commands, gitConfig, call, returned, treeAnnotations>>

\* the variables of the repository-operation specification
repo == <<call, returned>>

IdleFlow ==
    [ kind |-> "none", pc |-> "idle", id |-> 0, loaded |-> <<>>,
      editor |-> NoEditor, text |-> <<>>, tags |-> <<>>, name |-> <<>> ]

NoEvent == [cmd |-> "none", id |-> 0, answer |-> Undefined, message |-> ""]
Event(c, i, a, m) == [cmd |-> c, id |-> i, answer |-> a, message |-> m]

\* the provider's array is either the very array activate() holds (it was handed
\* annotationsFile.annotations, so a later push shows through) or an array of its own
Shared == [shared |-> TRUE, own |-> <<>>]
Own(annotations) == [shared |-> FALSE, own |-> annotations]

NoCall == [name |-> "none", collection |-> <<>>, id |-> 0, text |-> <<>>, tags |-> <<>>]

\* the slot a new command invocation runs in
FreeSlot(f) == flows[f].pc = "idle" /\ \A g \in Flows : g < f => flows[g].pc # "idle"

uuidv4_repeated == IF nextId > 1 THEN nextId - 1 ELSE nextId

\* uuidv4(): an id no earlier call returned
uuidv4 == nextId

Init ==
    /\ session = "start"
    /\ file \in {NoFile, CorruptFile, FileOf(<<>>)}
    /\ annotationsFile = <<>>
    /\ activeTextEditor \in {NoEditor} \cup Editors
    /\ nextId = 1
    /\ flows = [f \in Flows |-> IdleFlow]
    /\ event = NoEvent
    /\ deleted = {}
    /\ commands = 0
    /\ gitConfig \in GitConfigs
    /\ call = NoCall
    /\ returned = <<>>
    /\ treeAnnotations = Own(<<>>)

(* --------------------------- activation -------------------------------- *)
NoWorkspaceMsg == "requires a workspace folder"

\* the SyntaxError JSON.parse throws out of loadAnnotations and activate
ParseError == "JSON.parse failed"

\* activate(): no workspace folder -> error message and return
ActivateNoWorkspace ==
    /\ session = "start"
    /\ session' = "inactive"
    /\ event' = Event("activate", 0, Undefined, NoWorkspaceMsg)
    /\ UNCHANGED <<file, annotationsFile, activeTextEditor, nextId, flows, deleted, commands, gitConfig, repo, treeAnnotations>>

\* activate(): loadAnnotations creates the file when absent and parses it
ActivateLoad ==
    /\ session = "start"
    /\ file' = initAnnotationsFile(file)
    /\ IF file'.parses
       THEN /\ session' = "active"
            /\ annotationsFile' = file'.annotations
       ELSE /\ session' = "inactive"
            /\ UNCHANGED annotationsFile
    /\ event' = Event("activate", 0, Undefined, IF file'.parses THEN "" ELSE ParseError)
    /\ UNCHANGED <<activeTextEditor, nextId, flows, deleted, commands, gitConfig, repo, treeAnnotations>>

\* AnnotationsTreeProvider.updateAnnotations: this.annotations = annotations
updateAnnotations(annotations) == annotations

\* the user switches editor or moves the selection; once activate() has registered
\* its listeners the tree is handed annotationsFile.annotations
ChangeActiveTextEditor(e) ==
    /\ e # activeTextEditor
    /\ activeTextEditor' = e
    /\ treeAnnotations' = IF session = "active" THEN updateAnnotations(Shared) ELSE treeAnnotations
    /\ UNCHANGED <<session, file, annotationsFile, nextId, flows, event, deleted, commands, gitConfig, repo>>


(* ----------------------------- add ------------------------------------- *)
Busy(kind) == {g \in Flows : flows[g].kind = kind}

\* addAnnotation: if (!editor) { showErrorMessage("No active editor"); return; }
AddRefused(editor) == ~editor.open

\* whyAnnotations.addAnnotation is invoked: the editor and its selection are captured
AddInvoke(f) ==
    /\ session = "active"
    /\ FreeSlot(f)
    /\ commands < MaxCommands
    /\ commands' = commands + 1
    /\ UNCHANGED <<gitConfig, repo, treeAnnotations>>
    /\ nextId + Cardinality(Busy("add")) <= MaxIds
    /\ IF AddRefused(activeTextEditor)
       THEN /\ event' = Event("add", 0, Undefined, "No active editor")
            /\ UNCHANGED flows
       ELSE /\ flows' = [flows EXCEPT ![f] =
                    [IdleFlow EXCEPT !.kind = "add", !.pc = "text", !.editor = activeTextEditor]]
            /\ event' = Event("add", 0, Undefined, "")
    /\ UNCHANGED <<session, file, annotationsFile, activeTextEditor, nextId, deleted>>

\* the explanation prompt of showPopupAnnotationInput resolves
AddText(f, text) ==
    /\ flows[f].kind = "add" /\ flows[f].pc = "text"
    /\ IF TextRejected(text)
       THEN flows' = [flows EXCEPT ![f] = IdleFlow]
       ELSE flows' = [flows EXCEPT ![f].pc = "tags", ![f].text = text.value]
    /\ event' = Event("add", 0, text, "")
    /\ UNCHANGED <<session, file, annotationsFile, activeTextEditor, nextId, deleted, commands, gitConfig, repo, treeAnnotations>>

\* the tags prompt resolves; the handler goes on to await getGitAuthor()
AddTags(f, tagsInput) ==
    /\ flows[f].kind = "add" /\ flows[f].pc = "tags"
    /\ flows' = [flows EXCEPT ![f].pc = "gitName", ![f].tags = ParseTags(tagsInput)]
    /\ event' = Event("add", 0, tagsInput, "")
    /\ UNCHANGED <<session, file, annotationsFile, activeTextEditor, nextId, deleted, commands, gitConfig, repo, treeAnnotations>>

NewAnnotation_activeEditor(fl, author, now) ==
    [ id |-> uuidv4, filePath |-> activeTextEditor.fsPath,
      range |-> activeTextEditor.selection,
      text |-> fl.text, tags |-> fl.tags, author |-> author, createdAt |-> now ]

\* the annotation object built at extension.ts:104-117
NewAnnotation(fl, author, now) ==
    [ id |-> uuidv4, filePath |-> fl.editor.fsPath,
      range |-> fl.editor.selection,
      text |-> fl.text, tags |-> fl.tags, author |-> author, createdAt |-> now ]

\* push, save, refresh and report: the synchronous tail of the add handler
AddCommit(f, author, now) ==
    /\ annotationsFile' = push(annotationsFile, NewAnnotation(flows[f], author, now))
    /\ file' = saveAnnotations(annotationsFile')
    /\ nextId' = nextId + 1
    /\ flows' = [flows EXCEPT ![f] = IdleFlow]
    /\ treeAnnotations' = updateAnnotations(Shared)
    /\ event' = Event("add", uuidv4, Undefined, "Why Annotation added successfully!")
    /\ UNCHANGED <<session, activeTextEditor, deleted, commands, gitConfig, repo>>

\* exec("git config user.name") calls back
AddGitName(f, now) ==
    /\ flows[f].kind = "add" /\ flows[f].pc = "gitName"
    /\ LET res == gitConfig.name IN
       IF ExecFailed(res)
       THEN AddCommit(f, AuthorOf(res, res), now)
       ELSE /\ flows' = [flows EXCEPT ![f].pc = "gitEmail", ![f].name = res.stdout]
            /\ event' = Event("add", 0, Undefined, "")
            /\ UNCHANGED <<session, file, annotationsFile, activeTextEditor, nextId, deleted, commands, gitConfig, repo, treeAnnotations>>

\* exec("git config user.email") calls back
AddGitEmail(f, now) ==
    /\ flows[f].kind = "add" /\ flows[f].pc = "gitEmail"
    /\ AddCommit(f, AuthorOf(ExecOk(flows[f].name), gitConfig.email), now)

(* ----------------------------- edit ------------------------------------ *)
\* loadAnnotations as the edit and delete handlers call it
loadAnnotations(f) == initAnnotationsFile(f).annotations

LookupMissed_unchecked(annotations, id) == FALSE

\* if (!annotation) { showErrorMessage("Annotation not found"); return; }
LookupMissed(annotations, id) == ~findAnnotationById(annotations, id).found

\* whyAnnotations.editAnnotation is invoked with an id
EditInvoke(f, id) ==
    /\ session = "active"
    /\ FreeSlot(f)
    /\ commands < MaxCommands
    /\ commands' = commands + 1
    /\ UNCHANGED <<gitConfig, repo, treeAnnotations>>
    /\ file' = initAnnotationsFile(file)
    /\ IF LookupMissed(loadAnnotations(file), id)
       THEN /\ event' = Event("edit", id, Undefined, "Annotation not found")
            /\ UNCHANGED flows
       ELSE /\ flows' = [flows EXCEPT ![f] =
                    [IdleFlow EXCEPT !.kind = "edit", !.pc = "text", !.id = id,
                                     !.loaded = loadAnnotations(file)]]
            /\ event' = Event("edit", id, Undefined, "")
    /\ UNCHANGED <<session, annotationsFile, activeTextEditor, nextId, deleted>>

EditText(f, text) ==
    /\ flows[f].kind = "edit" /\ flows[f].pc = "text"
    /\ IF TextRejected(text)
       THEN flows' = [flows EXCEPT ![f] = IdleFlow]
       ELSE flows' = [flows EXCEPT ![f].pc = "tags", ![f].text = text.value]
    /\ event' = Event("edit", flows[f].id, text, "")
    /\ UNCHANGED <<session, file, annotationsFile, activeTextEditor, nextId, deleted, commands, gitConfig, repo, treeAnnotations>>

EditedCollection_tagsDropped(fl, tags) == updateAnnotation(fl.loaded, fl.id, fl.text, <<>>)

\* annotationsFile.annotations = updateAnnotation(annotations, id, input.text, input.tags)
EditedCollection(fl, tags) == updateAnnotation(fl.loaded, fl.id, fl.text, tags)

\* the tags prompt resolves: update the loaded collection and save it
EditTags(f, tagsInput) ==
    /\ flows[f].kind = "edit" /\ flows[f].pc = "tags"
    /\ file' = saveAnnotations(EditedCollection(flows[f], ParseTags(tagsInput)))
    /\ treeAnnotations' = updateAnnotations(Own(EditedCollection(flows[f], ParseTags(tagsInput))))
    /\ flows' = [flows EXCEPT ![f] = IdleFlow]
    /\ event' = Event("edit", flows[f].id, tagsInput, "Why Annotation updated successfully!")
    /\ UNCHANGED <<session, annotationsFile, activeTextEditor, nextId, deleted, commands, gitConfig, repo>>

(* ---------------------------- delete ----------------------------------- *)
\* whyAnnotations.deleteAnnotation is invoked with an id
DeleteInvoke(f, id) ==
    /\ session = "active"
    /\ FreeSlot(f)
    /\ commands < MaxCommands
    /\ commands' = commands + 1
    /\ UNCHANGED <<gitConfig, repo, treeAnnotations>>
    /\ file' = initAnnotationsFile(file)
    /\ IF LookupMissed(loadAnnotations(file), id)
       THEN /\ event' = Event("delete", id, Undefined, "Annotation not found")
            /\ UNCHANGED flows
       ELSE /\ flows' = [flows EXCEPT ![f] =
                    [IdleFlow EXCEPT !.kind = "delete", !.pc = "confirm", !.id = id,
                                     !.loaded = loadAnnotations(file)]]
            /\ event' = Event("delete", id, Undefined, "")
    /\ UNCHANGED <<session, annotationsFile, activeTextEditor, nextId, deleted>>

\* if (result !== "Yes") return
Confirmed(result) == result = Str(<<"Yes">>)

\* the modal confirmation resolves
DeleteConfirm(f, result) ==
    /\ flows[f].kind = "delete" /\ flows[f].pc = "confirm"
    /\ IF Confirmed(result)
       THEN /\ file' = saveAnnotations(removeAnnotation(flows[f].loaded, flows[f].id))
            /\ event' = Event("delete", flows[f].id, result,
                              "Why Annotation deleted successfully!")
            /\ deleted' = deleted \cup {flows[f].id}
            /\ treeAnnotations' = updateAnnotations(Own(removeAnnotation(flows[f].loaded, flows[f].id)))
       ELSE /\ event' = Event("delete", flows[f].id, result, "")
            /\ UNCHANGED <<file, deleted, treeAnnotations>>
    /\ flows' = [flows EXCEPT ![f] = IdleFlow]
    /\ UNCHANGED <<session, annotationsFile, activeTextEditor, nextId, commands, gitConfig, repo>>

(* ------------------------- specification ------------------------------- *)
Next ==
    \/ ActivateNoWorkspace
    \/ ActivateLoad
    \/ \E e \in {NoEditor} \cup Editors : ChangeActiveTextEditor(e)
    \/ \E f \in Flows : AddInvoke(f)
    \/ \E f \in Flows, a \in TextAnswers : AddText(f, a)
    \/ \E f \in Flows, a \in TagAnswers : AddTags(f, a)
    \/ \E f \in Flows, t \in Times : AddGitName(f, t)
    \/ \E f \in Flows, t \in Times : AddGitEmail(f, t)
    \/ \E f \in Flows, i \in Ids : EditInvoke(f, i)
    \/ \E f \in Flows, a \in TextAnswers : EditText(f, a)
    \/ \E f \in Flows, a \in TagAnswers : EditTags(f, a)
    \/ \E f \in Flows, i \in Ids : DeleteInvoke(f, i)
    \/ \E f \in Flows, a \in ConfirmAnswers : DeleteConfirm(f, a)

Spec == Init /\ [][Next]_vars

\* the runs in which the user invokes a command only when none is in progress
\* (a new invocation takes slot 1 exactly when no command is in progress)
SeqNext ==
    \/ ActivateNoWorkspace
    \/ ActivateLoad
    \/ \E e \in {NoEditor} \cup Editors : ChangeActiveTextEditor(e)
    \/ \E f \in {1} : AddInvoke(f)
    \/ \E f \in {1}, a \in TextAnswers : AddText(f, a)
    \/ \E f \in {1}, a \in TagAnswers : AddTags(f, a)
    \/ \E f \in {1}, t \in Times : AddGitName(f, t)
    \/ \E f \in {1}, t \in Times : AddGitEmail(f, t)
    \/ \E f \in {1}, i \in Ids : EditInvoke(f, i)
    \/ \E f \in {1}, a \in TextAnswers : EditText(f, a)
    \/ \E f \in {1}, a \in TagAnswers : EditTags(f, a)
    \/ \E f \in {1}, i \in Ids : DeleteInvoke(f, i)
    \/ \E f \in {1}, a \in ConfirmAnswers : DeleteConfirm(f, a)

SeqSpec == Init /\ [][SeqNext]_vars

(* ------------------------------ JSON ----------------------------------- *)
\* the serialized document is a sequence of tokens: punctuation, member names
\* scalars (numbers, and the file path taken whole) and quoted strings
Punct(c) == [kind |-> "punct", p |-> c, val |-> <<>>]
Key(name) == [kind |-> "key", p |-> name, val |-> <<>>]
Scalar(v) == [kind |-> "scalar", p |-> "", val |-> v]
Quoted(chars) == [kind |-> "string", p |-> "", val |-> chars]
IsPunct(t, c) == t.kind = "punct" /\ t.p = c

\* a string between its quotes: backslash, quote and newline are escaped
RECURSIVE Escape(_)
Escape(str) ==
    IF str = <<>> THEN <<>>
    ELSE (IF Head(str) = "\n" THEN <<"\\", "n">>
          ELSE IF Head(str) \in {"\\", "\""} THEN <<"\\", Head(str)>>
          ELSE <<Head(str)>>) \o Escape(Tail(str))

RECURSIVE Unescape_dropsBackslash(_)
Unescape_dropsBackslash(str) ==
    IF str = <<>> THEN <<>>
    ELSE IF Head(str) = "\\" /\ Len(str) > 1
         THEN <<str[2]>> \o Unescape_dropsBackslash(Tail(Tail(str)))
         ELSE <<Head(str)>> \o Unescape_dropsBackslash(Tail(str))

RECURSIVE Unescape(_)
Unescape(str) ==
    IF str = <<>> THEN <<>>
    ELSE IF Head(str) = "\\" /\ Len(str) > 1
         THEN <<(IF str[2] = "n" THEN "\n" ELSE str[2])>> \o Unescape(Tail(Tail(str)))
         ELSE <<Head(str)>> \o Unescape(Tail(str))

\* elements of an array or members of an object, separated by commas
RECURSIVE Joined(_)
Joined(parts) ==
    IF parts = <<>> THEN <<>>
    ELSE IF Len(parts) = 1 THEN parts[1]
    ELSE parts[1] \o <<Punct(",")>> \o Joined(Tail(parts))

StringifyArray(parts) == <<Punct("[")>> \o Joined(parts) \o <<Punct("]")>>
StringifyObject(members) == <<Punct("{")>> \o Joined(members) \o <<Punct("}")>>
Member(name, tokens) == <<Key(name)>> \o tokens
StringifyString(str) == <<Quoted(Escape(str))>>

StringifyRange(r) ==
    StringifyObject(<< Member("startLine", <<Scalar(r.startLine)>>),
                       Member("startCharacter", <<Scalar(r.startCharacter)>>),
                       Member("endLine", <<Scalar(r.endLine)>>),
                       Member("endCharacter", <<Scalar(r.endCharacter)>>) >>)

\* the members in the order the add handler writes them (extension.ts:104-117)
StringifyAnnotation(a) ==
    StringifyObject(<< Member("filePath", <<Scalar(a.filePath)>>),
                       Member("range", StringifyRange(a.range)),
                       Member("text", StringifyString(a.text)),
                       Member("tags", StringifyArray([k \in 1 .. Len(a.tags) |->
                                                        StringifyString(a.tags[k])])),
                       Member("author", StringifyString(a.author)),
                       Member("createdAt", <<Scalar(a.createdAt)>>),
                       Member("id", <<Scalar(a.id)>>) >>)

\* JSON.stringify(annotationsFile, null, 2)
JSONstringify(annotations) ==
    StringifyObject(<< Member("annotations",
                              StringifyArray([k \in 1 .. Len(annotations) |->
                                                StringifyAnnotation(annotations[k])])) >>)

\* JSON.parse: a value and the tokens after it
RECURSIVE ParseValue(_), ParseElements(_, _), ParseMembers(_, _)
ParseValue(tokens) ==
    IF IsPunct(Head(tokens), "[") THEN ParseElements(Tail(tokens), <<>>)
    ELSE IF IsPunct(Head(tokens), "{") THEN ParseMembers(Tail(tokens), <<>>)
    ELSE IF Head(tokens).kind = "string"
         THEN [v |-> Unescape(Head(tokens).val), rest |-> Tail(tokens)]
    ELSE [v |-> Head(tokens).val, rest |-> Tail(tokens)]

ParseElements(tokens, acc) ==
    IF IsPunct(Head(tokens), "]") THEN [v |-> acc, rest |-> Tail(tokens)]
    ELSE IF IsPunct(Head(tokens), ",") THEN ParseElements(Tail(tokens), acc)
    ELSE LET e == ParseValue(tokens) IN ParseElements(e.rest, Append(acc, e.v))

\* members is the sequence of the members read so far; the object maps each
\* name to the value of its last member
ParseMembers(tokens, members) ==
    IF IsPunct(Head(tokens), "}")
    THEN LET names == {members[m].name : m \in 1 .. Len(members)}
             Last(n) == CHOOSE m \in 1 .. Len(members) :
                           /\ members[m].name = n
                           /\ \A l \in m + 1 .. Len(members) : members[l].name # n
         IN [v |-> [n \in names |-> members[Last(n)].v], rest |-> Tail(tokens)]
    ELSE IF IsPunct(Head(tokens), ",") THEN ParseMembers(Tail(tokens), members)
    ELSE LET e == ParseValue(Tail(tokens))
         IN ParseMembers(e.rest, Append(members, [name |-> Head(tokens).p, v |-> e.v]))

JSONparse(content) == ParseValue(content).v

(* --------------------------- write failures ---------------------------- *)
\* the error fs.writeFileSync throws out of saveAnnotations and the handler
WriteError == "writeFileSync failed"

\* the add handler's tail when saveAnnotations throws: the push has happened,
\* nothing after the save runs
AddCommitFails(f, author, now) ==
    /\ annotationsFile' = push(annotationsFile, NewAnnotation(flows[f], author, now))
    /\ nextId' = nextId + 1
    /\ flows' = [flows EXCEPT ![f] = IdleFlow]
    /\ event' = Event("add", uuidv4, Undefined, WriteError)
    /\ UNCHANGED <<session, file, activeTextEditor, deleted, commands, gitConfig, repo,
                   treeAnnotations>>

AddGitNameFails(f, now) ==
    /\ flows[f].kind = "add" /\ flows[f].pc = "gitName"
    /\ ExecFailed(gitConfig.name)
    /\ AddCommitFails(f, AuthorOf(gitConfig.name, gitConfig.name), now)

AddGitEmailFails(f, now) ==
    /\ flows[f].kind = "add" /\ flows[f].pc = "gitEmail"
    /\ AddCommitFails(f, AuthorOf(ExecOk(flows[f].name), gitConfig.email), now)

\* the edit handler when saveAnnotations throws: only its local copy was updated
EditTagsFails(f, tagsInput) ==
    /\ flows[f].kind = "edit" /\ flows[f].pc = "tags"
    /\ flows' = [flows EXCEPT ![f] = IdleFlow]
    /\ event' = Event("edit", flows[f].id, tagsInput, WriteError)
    /\ UNCHANGED <<session, file, annotationsFile, activeTextEditor, nextId, deleted, commands,
                   gitConfig, repo, treeAnnotations>>

\* the delete handler when saveAnnotations throws
DeleteConfirmFails(f, result) ==
    /\ flows[f].kind = "delete" /\ flows[f].pc = "confirm"
    /\ Confirmed(result)
    /\ flows' = [flows EXCEPT ![f] = IdleFlow]
    /\ event' = Event("delete", flows[f].id, result, WriteError)
    /\ UNCHANGED <<session, file, annotationsFile, activeTextEditor, nextId, deleted, commands,
                   gitConfig, repo, treeAnnotations>>

\* one command at a time, on a disk whose writes can fail
IONext ==
    \/ SeqNext
    \/ \E t \in Times : AddGitNameFails(1, t)
    \/ \E t \in Times : AddGitEmailFails(1, t)
    \/ \E a \in TagAnswers : EditTagsFails(1, a)
    \/ \E a \in ConfirmAnswers : DeleteConfirmFails(1, a)

IOSpec == Init /\ [][IONext]_vars

(* ------------------- repository operations alone ----------------------- *)
\* longest collection handed to a repository operation
MaxLen == 2

RepoTexts == {<<"x">>, <<"y", "\n", "\"">>}
RepoTags == {<<>>, << <<"a">>, <<"b">> >>}
RepoAnnotations ==
    { [ id |-> i, filePath |-> "/a.ts", range |-> Selection(0, 0, 0, 4),
        text |-> t, tags |-> <<>>, author |-> <<"Unknown">>, createdAt |-> 7 ]
      : i \in 1 .. MaxIds, t \in RepoTexts }
Collections ==
    UNION { [1 .. n -> RepoAnnotations] : n \in 0 .. MaxLen }

Call(n, c, i, t, g) == [name |-> n, collection |-> c, id |-> i, text |-> t, tags |-> g]

RepoInit ==
    /\ session = "inactive"
    /\ file = NoFile
    /\ annotationsFile = <<>>
    /\ activeTextEditor = NoEditor
    /\ nextId = 1
    /\ flows = [f \in Flows |-> IdleFlow]
    /\ event = NoEvent
    /\ deleted = {}
    /\ commands = 0
    /\ gitConfig = [name |-> ExecError, email |-> ExecError]
    /\ call = NoCall
    /\ returned \in Collections
    /\ treeAnnotations = Own(<<>>)

main == <<session, file, annotationsFile, activeTextEditor, nextId, flows, event,
          deleted, commands, gitConfig, treeAnnotations>>

\* each operation is applied to the collection the previous one returned
RepoAdd(a) ==
    /\ Len(returned) < MaxLen
    /\ call' = Call("add", returned, a.id, a.text, a.tags)
    /\ returned' = push(returned, a)
    /\ UNCHANGED main

RepoUpdate(id, text, tags) ==
    /\ call' = Call("update", returned, id, text, tags)
    /\ returned' = updateAnnotation(returned, id, text, tags)
    /\ UNCHANGED main

RepoRemove(id) ==
    /\ call' = Call("remove", returned, id, <<>>, <<>>)
    /\ returned' = removeAnnotation(returned, id)
    /\ UNCHANGED main

\* saveAnnotations, loadAnnotations, saveAnnotations again: what the second save is given
RepoSaveLoad ==
    /\ call' = Call("saveLoad", returned, 0, <<>>, <<>>)
    /\ returned' = JSONparse(JSONstringify(returned)).annotations
    /\ UNCHANGED main

RepoNext ==
    \/ RepoSaveLoad
    \/ \E a \in RepoAnnotations : RepoAdd(a)
    \/ \E i \in Ids, t \in RepoTexts, g \in RepoTags : RepoUpdate(i, t, g)
    \/ \E i \in Ids : RepoRemove(i)

RepoSpec == RepoInit /\ [][RepoNext]_vars

(* ------------------------- author lookup ------------------------------- *)
\* exec("git config ...") is called without a timeout: a child process that
\* never exits never has its callback called, and getGitAuthor's promise is
\* never resolved
ExecHangs(f) ==
    /\ flows[f].kind = "add" /\ flows[f].pc \in {"gitName", "gitEmail"}
    /\ flows' = [flows EXCEPT ![f].pc = "hung"]
    /\ UNCHANGED <<session, file, annotationsFile, activeTextEditor, nextId, event, deleted,
                   commands, gitConfig, repo, treeAnnotations>>

LiveNext ==
    \/ SeqNext
    \/ ExecHangs(1)

\* the event loop runs the callback of a child process that has exited
LiveSpec ==
    /\ Init /\ [][LiveNext]_vars
    /\ WF_vars(\E t \in Times : AddGitName(1, t))
    /\ WF_vars(\E t \in Times : AddGitEmail(1, t))

(* ----------------------------- views ----------------------------------- *)
\* longest collection handed to the views
MaxView == 3

fileAnnotations_otherFiles(annotations, fsPath) ==
    LET OtherFile(a) == a.filePath # fsPath IN SelectSeq(annotations, OtherFile)

\* updateDecorations: annotations.filter((a) => a.filePath === editor.document.uri.fsPath)
fileAnnotations(annotations, fsPath) ==
    LET SameFile(a) == a.filePath = fsPath IN SelectSeq(annotations, SameFile)

\* getChildren: this.annotations.filter(a => a.filePath === activeEditor.document.uri.fsPath)
currentFileAnnotations(annotations, fsPath) ==
    LET SameFile(a) == a.filePath = fsPath IN SelectSeq(annotations, SameFile)

InsertAnnotation_beforeEqual(sorted, a) ==
    LET before == {k \in 1 .. Len(sorted) : sorted[k].range.startLine - a.range.startLine < 0}
        n == Cardinality(before)
    IN SubSeq(sorted, 1, n) \o <<a>> \o SubSeq(sorted, n + 1, Len(sorted))

\* one step of the stable sort: a goes after the elements the comparator
\* (a, b) => a.range.startLine - b.range.startLine does not put after it
InsertAnnotation(sorted, a) ==
    LET before == {k \in 1 .. Len(sorted) : sorted[k].range.startLine - a.range.startLine <= 0}
        n == Cardinality(before)
    IN SubSeq(sorted, 1, n) \o <<a>> \o SubSeq(sorted, n + 1, Len(sorted))

\* currentFileAnnotations.sort((a, b) => a.range.startLine - b.range.startLine)
RECURSIVE SortFrom(_, _)
SortFrom(annotations, sorted) ==
    IF annotations = <<>> THEN sorted
    ELSE SortFrom(Tail(annotations), InsertAnnotation(sorted, Head(annotations)))

sortedAnnotations(annotations) == SortFrom(annotations, <<>>)

\* the two arrays getChildren() of the flat tree works on: the provider's
\* this.annotations and the local currentFileAnnotations
Arrays(annotations) == [annotations |-> annotations, currentFileAnnotations |-> <<>>]

\* const currentFileAnnotations = this.annotations.filter(...): filter builds
\* a new array and leaves the one it is called on as it was
filterInto(arrays, fsPath) ==
    [arrays EXCEPT !.currentFileAnnotations = currentFileAnnotations(arrays.annotations, fsPath)]

sortInPlace_source(arrays) ==
    [ annotations |-> sortedAnnotations(arrays.annotations),
      currentFileAnnotations |-> sortedAnnotations(arrays.currentFileAnnotations) ]

\* currentFileAnnotations.sort(...): sort reorders the array it is called on
\* and returns that same array
sortInPlace(arrays) ==
    [arrays EXCEPT !.currentFileAnnotations = sortedAnnotations(@)]

\* the arrays when getChildren() of the flat tree returns
flatArrays(annotations, editor) ==
    IF ~editor.open THEN Arrays(annotations)
    ELSE sortInPlace(filterInto(Arrays(annotations), editor.fsPath))

\* getChildren() of the flat tree: one leaf per annotation of the current file
getChildrenFlat(annotations, editor) ==
    IF ~editor.open THEN <<>>
    ELSE flatArrays(annotations, editor).currentFileAnnotations

RECURSIVE GroupFrom_prepends(_, _)
GroupFrom_prepends(annotations, entries) ==
    IF annotations = <<>> THEN entries
    ELSE LET a == Head(annotations)
             line == a.range.startLine
             has == {k \in 1 .. Len(entries) : entries[k].lineNumber = line}
         IN IF has = {}
            THEN GroupFrom_prepends(Tail(annotations),
                                    Append(entries, [lineNumber |-> line, annotations |-> <<a>>]))
            ELSE GroupFrom_prepends(Tail(annotations),
                                    [k \in 1 .. Len(entries) |->
                                        IF k \in has
                                        THEN [entries[k] EXCEPT !.annotations = <<a>> \o @]
                                        ELSE entries[k]])

\* the forEach that fills the Map annotationsByLine; a Map keeps its keys in
\* the order they were first set
RECURSIVE GroupFrom(_, _)
GroupFrom(annotations, entries) ==
    IF annotations = <<>> THEN entries
    ELSE LET a == Head(annotations)
             line == a.range.startLine
             has == {k \in 1 .. Len(entries) : entries[k].lineNumber = line}
         IN IF has = {}
            THEN GroupFrom(Tail(annotations),
                           Append(entries, [lineNumber |-> line, annotations |-> <<a>>]))
            ELSE GroupFrom(Tail(annotations),
                           [k \in 1 .. Len(entries) |->
                               IF k \in has
                               THEN [entries[k] EXCEPT !.annotations = Append(@, a)]
                               ELSE entries[k]])

annotationsByLine(annotations) == GroupFrom(annotations, <<>>)

\* one step of .sort(([a], [b]) => a - b) over the Map's entries
InsertEntry(sorted, e) ==
    LET before == {k \in 1 .. Len(sorted) : sorted[k].lineNumber - e.lineNumber <= 0}
        n == Cardinality(before)
    IN SubSeq(sorted, 1, n) \o <<e>> \o SubSeq(sorted, n + 1, Len(sorted))

RECURSIVE SortEntriesFrom(_, _)
SortEntriesFrom(entries, sorted) ==
    IF entries = <<>> THEN sorted
    ELSE SortEntriesFrom(Tail(entries), InsertEntry(sorted, Head(entries)))

sortedEntries_unsorted(entries) == entries

\* Array.from(annotationsByLine.entries()).sort(([a], [b]) => a - b)
sortedEntries(entries) == SortEntriesFrom(entries, <<>>)

LineNumberTreeItem_alwaysExpanded(e) ==
    [ lineNumber |-> e.lineNumber, annotations |-> e.annotations,
      collapsibleState |-> IF Len(e.annotations) >= 1 THEN "Expanded" ELSE "None" ]

\* new LineNumberTreeItem(lineNumber, annotations, Expanded or None)
LineNumberTreeItem(e) ==
    [ lineNumber |-> e.lineNumber, annotations |-> e.annotations,
      collapsibleState |-> IF Len(e.annotations) > 1 THEN "Expanded" ELSE "None" ]

\* getChildren() of the grouped tree, at the root
getChildren(annotations, editor) ==
    IF ~editor.open THEN <<>>
    ELSE LET entries == sortedEntries(annotationsByLine(
                            currentFileAnnotations(annotations, editor.fsPath)))
         IN [k \in 1 .. Len(entries) |-> LineNumberTreeItem(entries[k])]

\* the annotations the views are given: the k-th has id k
ViewLines == {0, 3}
ViewCharacters == {0, 1}
ViewAnnotation(k, path, line, ch) ==
    [ id |-> k, filePath |-> path, range |-> Selection(line, ch, line, ch + 1),
      text |-> <<"x">>, tags |-> <<>>, author |-> <<"Unknown">>, createdAt |-> 7 ]
ViewKinds == {"/a.ts", "/b.ts"} \X ViewLines \X ViewCharacters
ViewCollections ==
    UNION { { [k \in 1 .. n |-> ViewAnnotation(k, kinds[k][1], kinds[k][2], kinds[k][3])]
              : kinds \in [1 .. n -> ViewKinds] } : n \in 0 .. MaxView }

ViewInit ==
    /\ session = "active"
    /\ file = NoFile
    /\ annotationsFile = <<>>
    /\ activeTextEditor \in {NoEditor} \cup Editors
    /\ nextId = 1
    /\ flows = [f \in Flows |-> IdleFlow]
    /\ event = NoEvent
    /\ deleted = {}
    /\ commands = 0
    /\ gitConfig = [name |-> ExecError, email |-> ExecError]
    /\ call = NoCall
    /\ returned = <<>>
    /\ treeAnnotations \in {Own(c) : c \in ViewCollections}

\* updateDecorations(editor, annotations, popupDecorationType)
ViewDecorations ==
    /\ activeTextEditor.open
    /\ call' = Call("updateDecorations", treeAnnotations.own, 0, <<>>, <<>>)
    /\ returned' = fileAnnotations(treeAnnotations.own, activeTextEditor.fsPath)
    /\ UNCHANGED main

\* the sidebar asks the flat provider for its root items
ViewChildrenFlat ==
    /\ call' = Call("getChildrenFlat", treeAnnotations.own, 0, <<>>, <<>>)
    /\ returned' = getChildrenFlat(treeAnnotations.own, activeTextEditor)
    /\ treeAnnotations' = Own(flatArrays(treeAnnotations.own, activeTextEditor).annotations)
    /\ UNCHANGED <<session, file, annotationsFile, activeTextEditor, nextId, flows, event,
                   deleted, commands, gitConfig>>

\* the sidebar asks the grouped provider for its root items; the forEach
\* pushes onto the Map's own arrays and the sort is of Array.from's new array
ViewChildren ==
    /\ call' = Call("getChildren", treeAnnotations.own, 0, <<>>, <<>>)
    /\ returned' = getChildren(treeAnnotations.own, activeTextEditor)
    /\ UNCHANGED main

ViewNext ==
    \/ ViewDecorations
    \/ ViewChildrenFlat
    \/ ViewChildren

ViewSpec == ViewInit /\ [][ViewNext]_vars

(* ----------------------------- claims ---------------------------------- *)
Quiescent == session = "active" /\ \A f \in Flows : flows[f].pc = "idle"

IdsOf(annotations) == {annotations[k].id : k \in 1 .. Len(annotations)}

UniqueIds(annotations) ==
    \A j, k \in 1 .. Len(annotations) : annotations[j].id = annotations[k].id => j = k

\* the records of a collection other than the one with the given id, in order
Others(annotations, id) ==
    LET NotTarget(a) == a.id # id IN SelectSeq(annotations, NotTarget)

\* the flow that takes the step, when the step is the given flow's resuming at pc
Resumes(f, kind, pc) == flows[f].kind = kind /\ flows[f].pc = pc /\ flows'[f] # flows[f]

AddedMsg == "Why Annotation added successfully!"
UpdatedMsg == "Why Annotation updated successfully!"
DeletedMsg == "Why Annotation deleted successfully!"
NotFoundMsg == "Annotation not found"

\* C1: whenever the session is active and no command is in progress, the
\* collection in the store file equals the session's in-memory collection.
C1_PersistedEqualsMemory ==
    Quiescent => file.annotations = annotationsFile

\* C2: an id whose confirmed delete command has completed is not found in
\* the persisted collection, now and after any later commands.
C2_RemovedStaysRemoved ==
    \A i \in deleted : ~findAnnotationById(file.annotations, i).found

\* C3: a record leaves the persisted store only in the step that completes
\* a confirmed delete command for its own id.
C3_PersistedUntilDeleted ==
    [][\A i \in Ids :
          (i \in IdsOf(file.annotations) /\ i \notin IdsOf(file'.annotations))
              => (event'.cmd = "delete" /\ event'.id = i /\ event'.message = DeletedMsg)]_vars

\* C4: no two records of the in-memory collection share an id, and no two
\* records of the persisted collection share an id.
C4_UniqueIds ==
    UniqueIds(annotationsFile) /\ UniqueIds(file.annotations)

C4_Witness ==
    Len(annotationsFile) = 2 /\ Len(file.annotations) = 2

\* fields of a record that no command may change
Frame(a) == <<a.id, a.filePath, a.range, a.author, a.createdAt>>

SameFrames(before, after) ==
    \A j \in 1 .. Len(before), k \in 1 .. Len(after) :
        before[j].id = after[k].id => Frame(before[j]) = Frame(after[k])

\* C5: the step that completes an edit command leaves the record with the
\* edited id in the store with the text and tags that were entered; and in
\* every step, a record that is in a collection before and after keeps its
\* id, filePath, range, author and createdAt.
C5_UpdateKeepsFrame ==
    [][/\ \A f \in Flows :
             Resumes(f, "edit", "tags") =>
                 \E k \in 1 .. Len(file'.annotations) :
                     /\ file'.annotations[k].id = flows[f].id
                     /\ file'.annotations[k].text = flows[f].text
                     /\ file'.annotations[k].tags = ParseTags(event'.answer)
       /\ SameFrames(file.annotations, file'.annotations)
       /\ SameFrames(annotationsFile, annotationsFile')
       /\ SameFrames(annotationsFile', file'.annotations)]_vars

C5_Witness ==
    /\ event.cmd = "edit" /\ event.message = UpdatedMsg
    /\ \E k \in 1 .. Len(file.annotations) :
          /\ file.annotations[k].id = event.id
          /\ file.annotations[k].text # annotationsFile[k].text
          /\ file.annotations[k].tags # annotationsFile[k].tags

C7_NotFoundNoMutation ==
    [][(/\ commands' = commands + 1
        /\ event'.cmd \in {"edit", "delete"}
        /\ event'.id \notin IdsOf(file.annotations))
            => /\ event'.message = NotFoundMsg
               /\ flows' = flows
               /\ file' = file
               /\ annotationsFile' = annotationsFile]_vars

C7_Witness ==
    /\ event.cmd = "delete" /\ event.message = NotFoundMsg
    /\ event.id \notin IdsOf(file.annotations)
    /\ file.annotations # <<>>

\* C8: a step in which an input prompt resolves to undefined, or the delete
\* confirmation resolves to anything but "Yes", ends the flow and changes
\* neither the in-memory collection nor the store file.
C8_DismissNoMutation ==
    [][\A f \in Flows :
          (\/ (Resumes(f, "add", "text") \/ Resumes(f, "add", "tags")) /\ ~event'.answer.given
           \/ (Resumes(f, "edit", "text") \/ Resumes(f, "edit", "tags")) /\ ~event'.answer.given
           \/ Resumes(f, "delete", "confirm") /\ event'.answer # Str(<<"Yes">>))
              => /\ flows'[f].pc = "idle"
                 /\ file' = file
                 /\ annotationsFile' = annotationsFile]_vars

NonEmptyTexts(annotations) == \A k \in 1 .. Len(annotations) : annotations[k].text # <<>>

\* C9: every record of the in-memory and of the persisted collection has a
\* non-empty text, and a step in which the explanation prompt of an add or
\* edit flow resolves to the empty string or to undefined ends the flow
\* and writes nothing.
C9_TextNonEmpty ==
    /\ [](NonEmptyTexts(annotationsFile) /\ NonEmptyTexts(file.annotations))
    /\ [][\A f \in Flows :
             ((Resumes(f, "add", "text") \/ Resumes(f, "edit", "text"))
                  /\ event'.answer \in {Undefined, Str(<<>>)})
                 => /\ flows'[f].pc = "idle"
                    /\ file' = file
                    /\ annotationsFile' = annotationsFile]_vars

C9_Witness ==
    /\ event.cmd = "edit" /\ event.answer = Str(<<>>)
    /\ Quiescent
    /\ file.annotations # <<>>

\* C10: update and remove applied with an id that no record of the
\* collection has return the collection they were given.
C10_MissIsNoOp ==
    (call.name \in {"update", "remove"} /\ call.id \notin IdsOf(call.collection))
        => returned = call.collection

C10_Witness ==
    /\ call.name = "update"
    /\ call.id \notin IdsOf(call.collection)
    /\ Len(call.collection) = 2

\* C11: a step in which saveAnnotations throws leaves the session's in-memory
\* collection as it was and ends the command.
C11_FailedSaveKeepsMemory ==
    [][event'.message = WriteError /\ event' # event
          => annotationsFile' = annotationsFile /\ Quiescent']_vars

\* the step in which activate() runs loadAnnotations
ActivationLoads == session = "start" /\ session' # session /\ event'.message # NoWorkspaceMsg

\* C12: loading a store file that exists but does not parse throws (the
\* session does not start) and leaves the store file as it was.
C12_CorruptStorePropagates ==
    [][(ActivationLoads /\ file.exists /\ ~file.parses)
          => /\ event'.message = ParseError
             /\ session' = "inactive"
             /\ file' = file
             /\ annotationsFile' = annotationsFile]_vars

C12_Witness ==
    session = "inactive" /\ file = CorruptFile /\ event.message = ParseError

\* C13: loading with no store file creates the file with the empty collection
\* and returns the empty collection; loading an existing store file (at
\* activation, and at every edit or delete invocation) returns the persisted
\* collection and leaves the file as it was.
C13_LoadCreatesOrReads ==
    [][/\ (ActivationLoads /\ ~file.exists)
            => file' = FileOf(<<>>) /\ annotationsFile' = <<>> /\ session' = "active"
       /\ (ActivationLoads /\ file.exists /\ file.parses)
            => file' = file /\ annotationsFile' = file.annotations /\ session' = "active"
       /\ (commands' = commands + 1 /\ event'.cmd \in {"edit", "delete"})
            => /\ file' = file
               /\ \A f \in Flows : flows'[f] # flows[f] => flows'[f].loaded = file.annotations]_vars

C13_Witness ==
    /\ flows[1].kind = "edit" /\ flows[1].pc = "text"
    /\ flows[1].loaded = file.annotations
    /\ Len(file.annotations) = 2

\* C14: saving a collection, loading it and saving what was loaded writes
\* the same document as the first save, and the collection loaded is equal
\* to the one saved (same records, same field values, same order).
C14_RoundTrip ==
    call.name = "saveLoad"
        => /\ returned = call.collection
           /\ JSONstringify(returned) = JSONstringify(call.collection)

C14_Witness ==
    /\ call.name = "saveLoad"
    /\ Len(call.collection) = 2
    /\ \E k \in 1 .. 2 : call.collection[k].tags # <<>> /\ "\n" \in {call.collection[k].text[c] : c \in 1 .. Len(call.collection[k].text)}

\* the positions of the current file's annotations in the source collection
InFile(annotations, fsPath) == {k \in 1 .. Len(annotations) : annotations[k].filePath = fsPath}

\* view lists exactly the records of annotations at the positions in at, each
\* once, in the order of the positions
ListsInOrder(view, annotations, at) ==
    \E idx \in [1 .. Len(view) -> 1 .. Len(annotations)] :
        /\ \A j, l \in 1 .. Len(view) : j < l => idx[j] < idx[l]
        /\ {idx[j] : j \in 1 .. Len(view)} = at
        /\ \A j \in 1 .. Len(view) : view[j] = annotations[idx[j]]

\* C15: the annotations decorated in an editor showing file p are exactly the
\* records of the collection whose filePath equals p, each once, in the
\* collection's order.
C15_ByFileExact ==
    call.name = "updateDecorations"
        => /\ ListsInOrder(returned, call.collection,
                           InFile(call.collection, activeTextEditor.fsPath))
           /\ \A j \in 1 .. Len(returned) : returned[j].filePath = activeTextEditor.fsPath

C15_Witness ==
    /\ call.name = "updateDecorations"
    /\ Len(call.collection) = 3
    /\ Len(returned) = 2
    /\ call.collection[2].filePath # activeTextEditor.fsPath

\* where in the groups a record of the source collection is listed
PlacesOf(groups, a) ==
    { <<g, j>> \in (1 .. Len(groups)) \X (1 .. MaxView + 1) :
        j <= Len(groups[g].annotations) /\ groups[g].annotations[j] = a }

\* C16: the groups of the grouped tree partition the current file's
\* annotations: each is in exactly one group, the one keyed by its startLine,
\* the groups hold nothing else, none is empty, and the keys are strictly
\* ascending (so no two are equal).
C16_GroupsPartition ==
    (call.name = "getChildren" /\ activeTextEditor.open)
        => LET C == call.collection
               at == InFile(C, activeTextEditor.fsPath)
           IN /\ \A k \in at :
                     /\ Cardinality(PlacesOf(returned, C[k])) = 1
                     /\ \A pl \in PlacesOf(returned, C[k]) :
                            returned[pl[1]].lineNumber = C[k].range.startLine
              /\ \A g \in 1 .. Len(returned) :
                     /\ returned[g].annotations # <<>>
                     /\ \A j \in 1 .. Len(returned[g].annotations) :
                            \E k \in at : C[k] = returned[g].annotations[j]
              /\ \A g, h \in 1 .. Len(returned) :
                     g < h => returned[g].lineNumber < returned[h].lineNumber

C16_Witness ==
    /\ call.name = "getChildren" /\ activeTextEditor.open
    /\ Len(returned) = 2
    /\ Len(call.collection) = 3
    /\ call.collection[1].range.startLine > call.collection[2].range.startLine
    /\ InFile(call.collection, activeTextEditor.fsPath) = {1, 2, 3}

\* the position of a record in the source collection
PositionIn(annotations, a) == CHOOSE k \in 1 .. Len(annotations) : annotations[k] = a

\* C17: inside each group the annotations are in the order of the source
\* collection, and two annotations of the current file with the same
\* startLine are in the same group, whatever their startCharacter.
C17_GroupOrder ==
    (call.name = "getChildren" /\ activeTextEditor.open)
        => LET C == call.collection
               at == InFile(C, activeTextEditor.fsPath)
           IN /\ \A g \in 1 .. Len(returned) :
                     \A j, l \in 1 .. Len(returned[g].annotations) :
                         j < l => PositionIn(C, returned[g].annotations[j])
                                    < PositionIn(C, returned[g].annotations[l])
              /\ \A k, m \in at :
                     C[k].range.startLine = C[m].range.startLine
                         => \E g \in 1 .. Len(returned) :
                                \E j, l \in 1 .. Len(returned[g].annotations) :
                                    /\ returned[g].annotations[j] = C[k]
                                    /\ returned[g].annotations[l] = C[m]

C17_Witness ==
    /\ call.name = "getChildren" /\ activeTextEditor.open
    /\ \E g \in 1 .. Len(returned) :
          /\ Len(returned[g].annotations) = 2
          /\ returned[g].annotations[1].range.startCharacter
                > returned[g].annotations[2].range.startCharacter

\* C18: the flat tree lists the current file's annotations, each once, by
\* non-decreasing startLine, and two with the same startLine are in the order
\* of the source collection.
C18_FlatSortStable ==
    (call.name = "getChildrenFlat" /\ activeTextEditor.open)
        => LET C == call.collection
               at == InFile(C, activeTextEditor.fsPath)
           IN /\ Len(returned) = Cardinality(at)
              /\ \A k \in at : \E j \in 1 .. Len(returned) : returned[j] = C[k]
              /\ \A j, l \in 1 .. Len(returned) :
                     j < l => /\ returned[j].range.startLine <= returned[l].range.startLine
                              /\ returned[j].range.startLine = returned[l].range.startLine
                                    => PositionIn(C, returned[j]) < PositionIn(C, returned[l])

C18_Witness ==
    /\ call.name = "getChildrenFlat" /\ activeTextEditor.open
    /\ Len(returned) = 3
    /\ returned[1].id = 2 /\ returned[2].id = 3 /\ returned[3].id = 1

\* the array the sidebar tree is computed from
TreeShown == IF treeAnnotations.shared THEN annotationsFile ELSE treeAnnotations.own

\* C19: whenever the session is active and no command is in progress, the
\* collection the sidebar tree is computed from equals the persisted one.
C19_ViewsShowPersisted ==
    Quiescent => TreeShown = file.annotations

\* C20: the step that completes an edit command leaves the persisted record
\* of its id with the text and tags entered, and the text and tags of a
\* persisted record change in no other step than one that completes an edit
\* command for its id.
C20_EditPersists ==
    [][/\ \A f \in Flows :
             (Resumes(f, "edit", "tags") /\ event'.message = UpdatedMsg)
                 => \E k \in 1 .. Len(file'.annotations) :
                        /\ file'.annotations[k].id = flows[f].id
                        /\ file'.annotations[k].text = flows[f].text
                        /\ file'.annotations[k].tags = ParseTags(event'.answer)
       /\ \A j \in 1 .. Len(file.annotations), k \in 1 .. Len(file'.annotations) :
             (/\ file.annotations[j].id = file'.annotations[k].id
              /\ <<file.annotations[j].text, file.annotations[j].tags>>
                    # <<file'.annotations[k].text, file'.annotations[k].tags>>)
                 => /\ event'.cmd = "edit"
                    /\ event'.id = file.annotations[j].id
                    /\ event'.message = UpdatedMsg]_vars

\* C21: a call of updateDecorations or of either getChildren leaves the
\* collection it is computed from unchanged in content and order, and the
\* same call on the collection it left behind gives the result it gave.
C21_ProjectionPure ==
    [][/\ treeAnnotations' = treeAnnotations
       /\ call'.collection = treeAnnotations.own
       /\ call'.name = "updateDecorations"
             => returned' = fileAnnotations(TreeShown', activeTextEditor'.fsPath)
       /\ call'.name = "getChildrenFlat"
             => returned' = getChildrenFlat(TreeShown', activeTextEditor')
       /\ call'.name = "getChildren"
             => returned' = getChildren(TreeShown', activeTextEditor')]_vars

C21_Witness ==
    /\ call.name = "getChildrenFlat"
    /\ treeAnnotations.own = call.collection
    /\ Len(returned) = 2
    /\ sortedAnnotations(call.collection) # call.collection
    /\ returned # currentFileAnnotations(call.collection, activeTextEditor.fsPath)

\* the given flow is an add command that takes the step
AddSteps(f) == flows[f].kind = "add" /\ flows'[f] # flows[f]

\* C22: a flow that starts an add command holds the editor and selection
\* that are active at that moment and keeps them until it ends; the step
\* that completes the command appends to the collection exactly one record,
\* at its end, whose filePath and range are the ones the flow holds, whose
\* other fields are all set, and saves the collection so extended; no other
\* step of an add command changes the collection or the store.
C22_AddAppendsAtAnchor ==
    [][\A f \in Flows :
          /\ (flows[f].pc = "idle" /\ flows'[f].kind = "add")
                => flows'[f].editor = activeTextEditor
          /\ (flows[f].kind = "add" /\ flows'[f].kind = "add")
                => flows'[f].editor = flows[f].editor
          /\ (AddSteps(f) /\ event'.message = AddedMsg)
                => LET a == annotationsFile'[Len(annotationsFile')]
                   IN /\ annotationsFile' = Append(annotationsFile, a)
                      /\ a.filePath = flows[f].editor.fsPath
                      /\ a.range = flows[f].editor.selection
                      /\ a.text = flows[f].text /\ a.text # <<>>
                      /\ a.tags = flows[f].tags
                      /\ a.id = event'.id /\ a.id \notin IdsOf(annotationsFile)
                      /\ a.author # <<>>
                      /\ a.createdAt \in Times
                      /\ file' = FileOf(annotationsFile')
          /\ (AddSteps(f) /\ event'.message # AddedMsg)
                => annotationsFile' = annotationsFile /\ file' = file]_vars

C22_Witness ==
    /\ event.cmd = "add" /\ event.message = AddedMsg
    /\ Len(annotationsFile) = 2
    /\ annotationsFile[2].id = event.id
    /\ activeTextEditor.open
    /\ annotationsFile[2].filePath # activeTextEditor.fsPath
    /\ annotationsFile[2].range # activeTextEditor.selection

\* the start lines of the annotations of a collection that are in a file
LinesIn(annotations, fsPath) ==
    {annotations[k].range.startLine : k \in InFile(annotations, fsPath)}

\* C23: the root of the grouped tree has exactly one node for each distinct
\* startLine of the current file's annotations and no other node; a node is
\* expandable exactly when its group holds more than one annotation, and the
\* node of a group of one is a leaf that holds just that annotation.
C23_OneNodePerLine ==
    (call.name = "getChildren" /\ activeTextEditor.open)
        => LET C == call.collection
               at == InFile(C, activeTextEditor.fsPath)
               lines == LinesIn(C, activeTextEditor.fsPath)
           IN /\ Len(returned) = Cardinality(lines)
              /\ \A l \in lines :
                     Cardinality({j \in 1 .. Len(returned) : returned[j].lineNumber = l}) = 1
              /\ \A j \in 1 .. Len(returned) :
                     LET group == {k \in at : C[k].range.startLine = returned[j].lineNumber}
                     IN /\ Len(returned[j].annotations) = Cardinality(group)
                        /\ returned[j].collapsibleState = "Expanded" <=> Cardinality(group) > 1
                        /\ Cardinality(group) = 1
                              => /\ returned[j].collapsibleState = "None"
                                 /\ \A k \in group : returned[j].annotations = <<C[k]>>

C23_Witness ==
    /\ call.name = "getChildren" /\ activeTextEditor.open
    /\ Len(returned) = 2
    /\ returned[1].collapsibleState = "None" /\ Len(returned[1].annotations) = 1
    /\ returned[2].collapsibleState = "Expanded" /\ Len(returned[2].annotations) = 2

\* C24: an add command whose two prompts have been answered eventually
\* completes: its flow ends with the annotation pushed and saved and
\* "Why Annotation added successfully!" shown.
C24_AddCompletes ==
    \A f \in Flows :
        (flows[f].kind = "add" /\ flows[f].pc = "gitName")
            ~> (flows[f].pc = "idle" /\ event.cmd = "add" /\ event.message = AddedMsg)

====
